---- MODULE Spec2Model ----
(***************************************************************************)
(* spaudiopy/IO.py: load_hrirs and the two SSR BRIR writers,               *)
(* write_ssr_brirs_loudspeaker and write_ssr_brirs_sdm.                    *)
(*                                                                         *)
(* Numbers.  A sample is an exact rational <<n, d>> in lowest terms with   *)
(* d > 0 (float64 arithmetic is taken as exact; the float32 cast of the    *)
(* write is modelled with its 24-bit significand).  An angle is an integer *)
(* count of half degrees, i.e. of pi/360 radians.                          *)
(* Arrays.  A 1-D array is a sequence.  An array of any rank is a record   *)
(* [shape |-> <<dims>>, v |-> row-major sequence of its elements].         *)
(* Strings that the code slices are sequences of one-character strings.    *)
(***************************************************************************)
EXTENDS Integers, Sequences, FiniteSets, TLC

\* ------------------------------------------------------------------ bounds
\* longest source impulse response (ls_irs.shape[1], len(sdm_p))
MaxSrcLen == 2
\* longest head-related impulse response (len(hrirs))
MaxHrirLen == 2
\* longest destination file name tried
MaxNameLen == 5

\* --------------------------------------------------------------- rationals
Abs(n) == IF n < 0 THEN -n ELSE n

RECURSIVE GCD(_, _)
GCD(a, b) == IF b = 0 THEN a ELSE GCD(b, a % b)

Rat(n, d) ==
    LET g == GCD(Abs(n), Abs(d))
        s == IF d < 0 THEN -1 ELSE 1
    IN  <<(s * n) \div g, (s * d) \div g>>

Zero == Rat(0, 1)
One == Rat(1, 1)
RatAdd(a, b) == Rat(a[1] * b[2] + b[1] * a[2], a[2] * b[2])
RatMul(a, b) == Rat(a[1] * b[1], a[2] * b[2])
RatDiv(a, b) == Rat(a[1] * b[2], a[2] * b[1])
RatAbs(a) == <<Abs(a[1]), a[2]>>
RatLE(a, b) == a[1] * b[2] <= b[1] * a[2]
RatGT(a, b) == ~RatLE(a, b)

\* ------------------------------------------------------------------ arrays
RECURSIVE Prod(_)
Prod(s) == IF s = <<>> THEN 1 ELSE Head(s) * Prod(Tail(s))

Const(n, x) == [i \in 1..n |-> x]

\* element [g, s] (1-based) of a 2-D array
At2(a, g, s) == a.v[(g - 1) * a.shape[2] + s]

\* row g (1-based) of a 2-D array, as a sequence
RowOf(a, g) == [s \in 1..a.shape[2] |-> At2(a, g, s)]

\* sum of equally long sequences of samples, element by element
RECURSIVE SeqSum(_, _)
SeqSum(seqs, n) ==
    IF seqs = <<>> THEN Const(n, Zero)
    ELSE LET rest == SeqSum(Tail(seqs), n)
         IN  [i \in 1..n |-> RatAdd(Head(seqs)[i], rest[i])]

\* ------------------------------------------------- destination file name
\* filename[-4:]
LastFour(s) == SubSeq(s, IF Len(s) > 4 THEN Len(s) - 3 ELSE 1, Len(s))

DotWav == <<".", "w", "a", "v">>

\* faulty variant: only the last three characters are compared, with "wav"
EnsureWavThree(filename) ==
    IF SubSeq(filename, IF Len(filename) > 3 THEN Len(filename) - 2 ELSE 1,
              Len(filename)) # Tail(DotWav)
    THEN filename \o DotWav ELSE filename

\* if not filename[-4:] == '.wav': filename = filename + '.wav'
EnsureWav(filename) ==
    IF ~(LastFour(filename) = DotWav) THEN filename \o DotWav ELSE filename

\* ------------------------------------------------------------------ angles
\* one turn, in half degrees
Turn == 2 * 360

\* np.deg2rad(angle): degrees to radians, here to units of pi/360
Deg2Rad(angle) == 2 * angle

\* ----------------------------------------------------------------- float32
\* significand bits of np.float32
F32Mant == 24

RECURSIVE Pow2(_)
Pow2(k) == IF k = 0 THEN 1 ELSE 2 * Pow2(k - 1)

\* floor(log2(a / d)) for a, d > 0
RECURSIVE Ilog2(_, _)
Ilog2(a, d) ==
    IF a >= 2 * d THEN 1 + Ilog2(a, 2 * d)
    ELSE IF a < d THEN Ilog2(2 * a, d) - 1
    ELSE 0

\* p / q rounded to the nearest integer, ties to even
RoundDiv(p, q) ==
    LET f == p \div q
        r == p % q
    IN  IF 2 * r < q THEN f
        ELSE IF 2 * r > q THEN f + 1
        ELSE IF f % 2 = 0 THEN f ELSE f + 1

\* x.astype(np.float32) for one sample in the normal range
Float32(x) ==
    IF x[1] = 0 THEN Zero
    ELSE LET a == Abs(x[1])
             e == Ilog2(a, x[2])
             k == F32Mant - 1 - e
             m == RoundDiv(a * Pow2(k), x[2])
         IN  Rat((IF x[1] < 0 THEN -1 ELSE 1) * m, Pow2(k))

\* ------------------------------------------------------- numpy array steps
None == "None"
\* filename=None and hrirs=None, told apart from every path and every set
NoName == <<>>
NoHrirs == [absent |-> TRUE]
\* the loop variable before the loop binds it
NotStarted == 0 - 1

\* np.squeeze(a): axes of length one are dropped
Squeeze(a) == [shape |-> SelectSeq(a.shape, LAMBDA d : d # 1), v |-> a.v]

\* np.zeros_like(a)
ZerosLike(a) == [shape |-> a.shape, v |-> Const(Len(a.v), Zero)]

\* whether a[:, 0] = ... can index a: two axes, the second not empty
HasFirstColumn(a) == Len(a.shape) >= 2 /\ a.shape[2] >= 1

\* faulty variant: a[:, -1] is set instead of a[:, 0]
FirstColumnLast(a) ==
    [shape |-> a.shape,
     v |-> [i \in 1..Len(a.v) |-> IF i % a.shape[2] = 0 THEN One ELSE a.v[i]]]

\* a[:, 0] = np.ones(a.shape[0]) on an array with a first column
FirstColumnOnes(a) ==
    [shape |-> a.shape,
     v |-> [i \in 1..Len(a.v) |->
                IF (i - 1) % Prod(Tail(a.shape)) = 0 THEN One ELSE a.v[i]]]

\* ------------------------------------------------- external collaborators
\* number of measured directions of the HRTF sets used
GridSize == 2

\* sig.HRIRs(left, right, grid, fs): holds what it is given
MakeHRIRs(left, right, grid, fs) ==
    [left |-> left, right |-> right, grid |-> grid, fs |-> fs]

\* len(hrirs): the impulse-response length of the set
HrirLen(h) == h.left.shape[2]

\* distance of two azimuths on the circle
CircDist(a, b) ==
    LET d == (a - b) % Turn IN IF 2 * d > Turn THEN Turn - d ELSE d

\* index of the measured direction nearest to (azi, colat); first on ties
Nearest(grid, azi, colat) ==
    LET dist(g) == CircDist(grid[g].azi, azi) + Abs(grid[g].colat - colat)
    IN  CHOOSE g \in 1..Len(grid) :
            /\ \A k \in 1..Len(grid) : dist(g) <= dist(k)
            /\ \A k \in 1..(g - 1) : dist(k) > dist(g)

\* h scaled by x and delayed by i - 1 samples, in n samples
Placed(x, h, i, n) ==
    [k \in 1..n |-> IF k >= i /\ k - i + 1 <= Len(h)
                    THEN RatMul(x, h[k - i + 1]) ELSE Zero]

\* full convolution of x with h: Len(x) + Len(h) - 1 samples
Convolve(x, h) ==
    LET n == Len(x) + Len(h) - 1
    IN  SeqSum([i \in 1..Len(x) |-> Placed(x[i], h, i, n)], n)

\* sdm.render_bsdm(sdm_p, sdm_phi, sdm_theta, hrirs): every pressure sample
\* is filtered with the HRIR pair nearest to its direction of arrival
RenderBsdm(p, phi, theta, h) ==
    LET n == Len(p) + HrirLen(h) - 1
        g(i) == Nearest(h.grid, phi[i], theta[i])
    IN  <<SeqSum([i \in 1..Len(p) |-> Placed(p[i], RowOf(h.left, g(i)), i, n)], n),
          SeqSum([i \in 1..Len(p) |-> Placed(p[i], RowOf(h.right, g(i)), i, n)], n)>>

\* hull.binauralize(ls_irs, fs, orientation, hrirs): every loudspeaker's
\* response is filtered with the HRIR pair nearest to its direction as heard
\* by a listener turned by orientation
Binauralize(hull, ls, fs, orientation, h) ==
    LET n == ls.shape[2] + HrirLen(h) - 1
        g(l) == Nearest(h.grid, hull[l].azi - orientation[1],
                        hull[l].colat - orientation[2])
    IN  <<SeqSum([l \in 1..ls.shape[1] |->
                    Convolve(RowOf(ls, l), RowOf(h.left, g(l)))], n),
          SeqSum([l \in 1..ls.shape[1] |->
                    Convolve(RowOf(ls, l), RowOf(h.right, g(l)))], n)>>

\* -------------------------------------------------------------- input data
\* the sample rates tried for fs and for the rate stored in an HRTF set
FsValues == {44100, 48000, 96000}
HrirRates == {44100, 48000}

\* an HRTF set of g directions spread over the horizontal plane
HrirSample(ear, g, s) ==
    IF (g % 2 = 1) = (ear = "l") THEN Rat(1, Pow2(s - 1)) ELSE Rat(-1, Pow2(s))

HrirArray(ear, h) ==
    [shape |-> <<GridSize, h>>,
     v |-> [i \in 1..(GridSize * h) |->
                HrirSample(ear, ((i - 1) \div h) + 1, ((i - 1) % h) + 1)]]

GridAzi == [g \in 1..GridSize |-> ((g - 1) * Turn) \div GridSize]
GridColat == [g \in 1..GridSize |-> Turn \div 4]

\* what loadmat returns for an HRTF container: each entry a 2-D array
Container(h, rate) ==
    [hrir_l |-> HrirArray("l", h), hrir_r |-> HrirArray("r", h),
     SamplingRate |-> [shape |-> <<1, 1>>, v |-> <<rate>>],
     azi |-> [shape |-> <<1, GridSize>>, v |-> GridAzi],
     elev |-> [shape |-> <<1, GridSize>>, v |-> GridColat]]

\* an HRTF set as a caller builds it: 2-D arrays of h samples per direction
CallerHRIRs(h, rate) ==
    MakeHRIRs(HrirArray("l", h), HrirArray("r", h),
              [g \in 1..GridSize |-> [azi |-> GridAzi[g], colat |-> GridColat[g]]],
              rate)

\* source signals: silent, below full scale, peaking at full scale, above it
SrcKinds == {"zero", "quiet", "unit", "loud"}

\* the HRTF sets a caller passes: of every length, stored at 48 kHz
CallerSets == {CallerHRIRs(len, 48000) : len \in 1..MaxHrirLen}

SrcSample(kind, i) ==
    CASE kind = "zero" -> Zero
      [] kind = "quiet" -> IF i % 2 = 1 THEN Rat(-1, 2) ELSE Rat(1, 4)
      [] kind = "unit" -> IF i = 1 THEN One ELSE Zero
      [] kind = "loud" -> IF i = 1 THEN Rat(3, 2) ELSE One

SdmP(kind, n) == [i \in 1..n |-> SrcSample(kind, i)]

\* directions of arrival: azimuth and colatitude per pressure sample
DoaKinds == {"front", "turning"}
SdmPhi(doa, n) ==
    [i \in 1..n |-> IF doa = "front" THEN 0 ELSE 15 + (i - 1) * 250]
SdmTheta(doa, n) ==
    [i \in 1..n |-> IF doa = "front" THEN Turn \div 4 ELSE 170 + (i - 1) * 30]

\* a stereo pair of loudspeakers at +-30 degrees and their responses
Hull == <<[azi |-> 60, colat |-> Turn \div 4], [azi |-> Turn - 60, colat |-> Turn \div 4]>>

LsIrs(kind, n) ==
    [shape |-> <<Len(Hull), n>>,
     v |-> [i \in 1..(Len(Hull) * n) |->
                IF i <= n THEN SrcSample(kind, i)
                ELSE RatMul(Rat(1, 2), SrcSample(kind, i - n + 1))]]

\* the destination name given to the writers where the name is not at stake
OutName == <<"o", "u", "t">>

\* destination names for the extension rule: the pieces of one long name
LongName == <<"a", ".", "w", "a", "v", ".", "w", "a", "v">>
Names ==
    {SubSeq(LongName, i, j) : i \in 1..Len(LongName), j \in 0..Len(LongName)}
    \cap UNION {[1..n -> {".", "w", "a", "v"}] : n \in 0..MaxNameLen}

\* ------------------------------------------------------------------- state
VARIABLES
    pc,           \* where the running call stands
    func,         \* the function called: "ls", "sdm", "load" ("none" before)
    err,          \* the exception that ended the call, None without one
    caller,       \* the caller's own objects, as passed in
    filename, fs, hrirs,                \* parameters of the writers
    ls_irs, hull,                       \* write_ssr_brirs_loudspeaker
    sdm_p, sdm_phi, sdm_theta,          \* write_ssr_brirs_sdm
    ssr_brirs, angle, sdm_phi_rot, ir_l, ir_r,   \* locals of the writers
    lh,           \* the frame of load_hrirs: parameters and locals
    ret,          \* what load_hrirs returned to a direct caller
    call,         \* the arguments of the renderer call just made
    rendered,     \* whether a renderer was invoked at all
    opened,       \* the container paths handed to loadmat
    warned,       \* whether warn('Normalizing BRIRs') was issued
    wavs          \* the files written by wavfile.write, in order

params == <<filename, fs, hrirs, ls_irs, hull, sdm_p, sdm_phi, sdm_theta>>
locals == <<ssr_brirs, angle, sdm_phi_rot, ir_l, ir_r>>
env == <<rendered, opened, warned, wavs>>
vars == <<pc, func, err, caller, params, locals, lh, ret, call, env>>

Init ==
    /\ pc = "idle" /\ func = "none" /\ err = None /\ caller = None
    /\ filename = None /\ fs = None /\ hrirs = NoHrirs
    /\ ls_irs = None /\ hull = None
    /\ sdm_p = None /\ sdm_phi = None /\ sdm_theta = None
    /\ ssr_brirs = None /\ angle = NotStarted /\ sdm_phi_rot = None
    /\ ir_l = None /\ ir_r = None
    /\ lh = None /\ ret = None /\ call = None
    /\ rendered = FALSE /\ opened = {} /\ warned = FALSE /\ wavs = <<>>

\* an exception leaves the call: its frames are gone, the world stays
Raise(e) ==
    /\ pc' = "error" /\ err' = e
    /\ filename' = None /\ fs' = None /\ hrirs' = NoHrirs
    /\ ls_irs' = None /\ hull' = None
    /\ sdm_p' = None /\ sdm_phi' = None /\ sdm_theta' = None
    /\ ssr_brirs' = None /\ angle' = NotStarted /\ sdm_phi_rot' = None
    /\ ir_l' = None /\ ir_r' = None
    /\ lh' = None /\ call' = None
    /\ UNCHANGED <<func, caller, ret>>

\* ------------------------------------------------------------- load_hrirs
ModuleDir == "spaudiopy"
Default44 == "../data/HRTF_default.mat"
Default48 == "../data/HRTF_default48k.mat"
UserMat == "user.mat"

\* os.path.join(current_file_dir, default_file)
Join(dir, file) == <<dir, file>>

UnsupportedRate == "ValueError: No default hrirs."
MissingData == "ValueError: No default hrirs. Try running HRIRs_from_SH.py"
RateMismatch == "AssertionError"
IndexErr == "IndexError"
EmptyMax == "ValueError: zero-size array to reduction operation maximum"
RendererError == "renderer error"

\* the frame of load_hrirs(fs, filename, dummy) on entry
LoadFrame(f, name, dummy) ==
    [fs |-> f, filename |-> name, dummy |-> dummy, mat |-> None,
     hrir_l |-> None, hrir_r |-> None, hrir_fs |-> None, grid |-> None]

\* the HRTF containers the file system may hold at a path, stored at either
\* rate; a shipped default container holds full-length responses, a user's
\* container responses of any length
Containers(path) ==
    {Container(h, r) :
        h \in (IF path = <<UserMat>> THEN 1 ELSE MaxHrirLen)..MaxHrirLen,
        r \in HrirRates}

\* faulty variant: the final else falls back to the 44.1 kHz container
DefaultFileAny(f) == IF f = 48000 THEN Default48 ELSE Default44

\* lines 116-121: the default container of a sample rate, None without one
DefaultFile(f) ==
    IF f = 44100 THEN Default44 ELSE IF f = 48000 THEN Default48 ELSE None

\* lines 115-123
LoadDefaultPath ==
    /\ pc = "l_default"
    /\ IF lh.filename = NoName
       THEN IF DefaultFile(lh.fs) = None
            THEN Raise(UnsupportedRate)
            ELSE /\ lh' = [lh EXCEPT !.filename = Join(ModuleDir, DefaultFile(lh.fs))]
                 /\ pc' = "l_open"
                 /\ UNCHANGED <<func, err, caller, params, locals, ret, call>>
       ELSE /\ pc' = "l_open"
            /\ UNCHANGED <<func, err, caller, params, locals, lh, ret, call>>
    /\ UNCHANGED env

\* lines 125-128
LoadOpen ==
    /\ pc = "l_open"
    /\ opened' = opened \cup {lh.filename}
    /\ \/ Raise(MissingData)      \* FileNotFoundError
       \/ \E m \in Containers(lh.filename) :
             /\ lh' = [lh EXCEPT !.mat = m]
             /\ pc' = "l_parse"
             /\ UNCHANGED <<func, err, caller, params, locals, ret, call>>
    /\ UNCHANGED <<rendered, warned, wavs>>

\* lines 130-135
LoadParse ==
    /\ pc = "l_parse"
    /\ lh' = [lh EXCEPT
                !.hrir_l = Squeeze(lh.mat.hrir_l),
                !.hrir_r = Squeeze(lh.mat.hrir_r),
                !.hrir_fs = lh.mat.SamplingRate.v[1],
                !.grid = LET azi == Squeeze(lh.mat.azi)
                             elev == Squeeze(lh.mat.elev)
                         IN  [g \in 1..Len(azi.v) |->
                                 [azi |-> azi.v[g], colat |-> elev.v[g]]]]
    /\ pc' = "l_dummy"
    /\ UNCHANGED <<func, err, caller, params, locals, ret, call, env>>

DummyOf(a) == FirstColumnOnes(ZerosLike(a))

\* lines 136-141
LoadDummy ==
    /\ pc = "l_dummy"
    /\ IF lh.dummy = TRUE
       THEN IF ~HasFirstColumn(lh.hrir_l) \/ ~HasFirstColumn(lh.hrir_r)
            THEN Raise(IndexErr)
            ELSE /\ lh' = [lh EXCEPT !.hrir_l = DummyOf(lh.hrir_l),
                                     !.hrir_r = DummyOf(lh.hrir_r)]
                 /\ pc' = "l_make"
                 /\ UNCHANGED <<func, err, caller, params, locals, ret, call>>
       ELSE /\ pc' = "l_make"
            /\ UNCHANGED <<func, err, caller, params, locals, lh, ret, call>>
    /\ UNCHANGED env

\* faulty variant: the assertion is missing
RateOkAlways(h, f) == TRUE

\* assert HRIRs.fs == fs, assert(hrirs.fs == fs)
RateOk(h, f) == h.fs = f

\* lines 143-145; the set goes to the direct caller or to the writer's hrirs
LoadReturn ==
    /\ pc = "l_make"
    /\ LET HRIRs == MakeHRIRs(lh.hrir_l, lh.hrir_r, lh.grid, lh.hrir_fs)
       IN  IF ~RateOk(HRIRs, lh.fs)
           THEN Raise(RateMismatch)
           ELSE /\ lh' = None
                /\ IF func = "load"
                   THEN /\ ret' = HRIRs /\ pc' = "returned"
                        /\ UNCHANGED hrirs
                   ELSE /\ hrirs' = HRIRs /\ pc' = "check"
                        /\ UNCHANGED ret
                /\ UNCHANGED <<func, err, caller, filename, fs, ls_irs, hull,
                               sdm_p, sdm_phi, sdm_theta, locals, call>>
    /\ UNCHANGED env

\* a direct call load_hrirs(fs, filename, dummy)
CallLoad ==
    /\ pc = "idle"
    /\ \E f \in FsValues, name \in {NoName, <<UserMat>>}, dummy \in BOOLEAN :
          /\ caller' = [fs |-> f, filename |-> name, dummy |-> dummy]
          /\ lh' = LoadFrame(f, name, dummy)
    /\ func' = "load" /\ pc' = "l_default"
    /\ UNCHANGED <<err, params, locals, ret, call, env>>

\* ---------------------------------------------------------------- writers
\* faulty variant: range(0, 359)
NumOrientationsShort == 360 - 1
\* orientations swept, range(0, 360), and rows of the bank
NumOrientations == 360
BankRows == 720

\* np.zeros((rows, cols)): the rows by index from 0
Zeros(rows, cols) ==
    [shape |-> <<rows, cols>>, rows |-> [r \in 0..(rows - 1) |-> Const(cols, Zero)]]

\* faulty variant: ssr_brirs[angle, :] for the left ear
LeftRowPacked(k) == k
\* rows of orientation k: ssr_brirs[2 * angle, :], ssr_brirs[2 * angle + 1, :]
LeftRow(k) == 2 * k
RightRow(k) == 2 * k + 1

\* write_ssr_brirs_loudspeaker(filename, ls_irs, hull, fs, hrirs)
CallLs(names, kinds, lens, rates, sets) ==
    /\ pc = "idle"
    /\ \E name \in names, kind \in kinds, n \in lens, f \in rates, h \in sets :
          /\ caller' = [filename |-> name, ls_irs |-> LsIrs(kind, n),
                        hull |-> Hull, fs |-> f, hrirs |-> h]
          /\ filename' = name /\ ls_irs' = LsIrs(kind, n) /\ hull' = Hull
          /\ fs' = f /\ hrirs' = h
    /\ func' = "ls" /\ pc' = "resolve"
    /\ UNCHANGED <<err, sdm_p, sdm_phi, sdm_theta, locals, lh, ret, call, env>>

\* write_ssr_brirs_sdm(filename, sdm_p, sdm_phi, sdm_theta, fs, hrirs)
CallSdm(names, kinds, lens, doas, rates, sets) ==
    /\ pc = "idle"
    /\ \E name \in names, kind \in kinds, n \in lens, doa \in doas, f \in rates,
          h \in sets :
          /\ caller' = [filename |-> name, sdm_p |-> SdmP(kind, n),
                        sdm_phi |-> SdmPhi(doa, n), sdm_theta |-> SdmTheta(doa, n),
                        fs |-> f, hrirs |-> h]
          /\ filename' = name /\ sdm_p' = SdmP(kind, n)
          /\ sdm_phi' = SdmPhi(doa, n) /\ sdm_theta' = SdmTheta(doa, n)
          /\ fs' = f /\ hrirs' = h
    /\ func' = "sdm" /\ pc' = "resolve"
    /\ UNCHANGED <<err, ls_irs, hull, locals, lh, ret, call, env>>

\* lines 207-208, 252-253: if hrirs is None: hrirs = load_hrirs(fs=fs)
Resolve ==
    /\ pc = "resolve"
    /\ IF hrirs = NoHrirs
       THEN /\ lh' = LoadFrame(fs, NoName, FALSE) /\ pc' = "l_default"
       ELSE /\ pc' = "check" /\ UNCHANGED lh
    /\ UNCHANGED <<func, err, caller, params, locals, ret, call, env>>

\* lines 209, 254: assert(hrirs.fs == fs)
CheckFs ==
    /\ pc = "check"
    /\ IF ~RateOk(hrirs, fs)
       THEN Raise(RateMismatch)
       ELSE /\ pc' = "ext"
            /\ UNCHANGED <<func, err, caller, params, locals, lh, ret, call>>
    /\ UNCHANGED env

\* lines 211-212, 256-257
EnsureWavStep ==
    /\ pc = "ext"
    /\ filename' = EnsureWav(filename)
    /\ pc' = "alloc"
    /\ UNCHANGED <<func, err, caller, fs, hrirs, ls_irs, hull, sdm_p, sdm_phi,
                   sdm_theta, locals, lh, ret, call, env>>

\* ls_irs.shape[1], len(sdm_p)
SourceLength == IF func = "ls" THEN ls_irs.shape[2] ELSE Len(sdm_p)

\* faulty variant: the - 1 of the full convolution length is missing
BankColsNoOverlap(src, h) == src + h
\* lines 214, 259: the column count of the bank
BankCols(src, h) == src + h - 1

\* lines 214, 259: ssr_brirs = np.zeros((720, ...))
Allocate ==
    /\ pc = "alloc"
    /\ ssr_brirs' = Zeros(BankRows, BankCols(SourceLength, HrirLen(hrirs)))
    /\ pc' = "sweep"
    /\ UNCHANGED <<func, err, caller, params, angle, sdm_phi_rot, ir_l, ir_r,
                   lh, ret, call, env>>

\* sdm_phi - np.deg2rad(angle), element by element
\* faulty variant: sdm_phi = sdm_phi - np.deg2rad(angle), which accumulates
\* the rotations of orientations 0..k
RotatedCumulative(phi, k) ==
    [i \in 1..Len(phi) |-> phi[i] - Deg2Rad((k * (k + 1)) \div 2)]
Rotated(phi, k) == [i \in 1..Len(phi) |-> phi[i] - Deg2Rad(k)]

\* faulty variant: the ears are swapped
StoreRowsSwapped(bank, k, l, r) ==
    [bank EXCEPT !.rows = [[@ EXCEPT ![LeftRow(k)] = r] EXCEPT ![RightRow(k)] = l]]
\* lines 219-222, 264-267: the two row assignments of one iteration, in order
StoreRows(bank, k, l, r) ==
    [bank EXCEPT !.rows = [[@ EXCEPT ![LeftRow(k)] = l] EXCEPT ![RightRow(k)] = r]]

\* lines 216-218, 261-263: the renderer call of orientation k and its result
RenderAt(k) ==
    IF func = "ls"
    THEN Binauralize(hull, ls_irs, fs, <<Deg2Rad(k), 0>>, hrirs)
    ELSE RenderBsdm(sdm_p, Rotated(sdm_phi, k), sdm_theta, hrirs)

\* lines 216-222, 261-267: the bank after the body of the loop for angle k
Iteration(bank, k) ==
    LET out == RenderAt(k) IN StoreRows(bank, k, out[1], out[2])

\* lines 215-222: one iteration of the loop of write_ssr_brirs_loudspeaker
SweepLs ==
    /\ pc = "sweep" /\ func = "ls"
    /\ angle < NumOrientations - 1
    /\ LET k == angle + 1
       IN  /\ angle' = k
           /\ call' = [fn |-> "binauralize", ls_irs |-> ls_irs, fs |-> fs,
                       orientation |-> <<Deg2Rad(k), 0>>, hrirs |-> hrirs]
           /\ ir_l' = RenderAt(k)[1] /\ ir_r' = RenderAt(k)[2]
           /\ ssr_brirs' = Iteration(ssr_brirs, k)
           /\ pc' = IF k = NumOrientations - 1 THEN "norm" ELSE "sweep"
    /\ rendered' = TRUE
    /\ UNCHANGED <<func, err, caller, params, sdm_phi_rot, lh, ret,
                   opened, warned, wavs>>

\* lines 260-267: one iteration of the loop of write_ssr_brirs_sdm
SweepSdm ==
    /\ pc = "sweep" /\ func = "sdm"
    /\ angle < NumOrientations - 1
    /\ LET k == angle + 1
       IN  /\ angle' = k
           /\ sdm_phi_rot' = Rotated(sdm_phi, k)
           /\ call' = [fn |-> "render_bsdm", sdm_p |-> sdm_p,
                       sdm_phi |-> Rotated(sdm_phi, k),
                       sdm_theta |-> sdm_theta, hrirs |-> hrirs]
           /\ ir_l' = RenderAt(k)[1] /\ ir_r' = RenderAt(k)[2]
           /\ ssr_brirs' = Iteration(ssr_brirs, k)
           /\ pc' = IF k = NumOrientations - 1 THEN "norm" ELSE "sweep"
    /\ rendered' = TRUE
    /\ UNCHANGED <<func, err, caller, params, lh, ret, opened, warned, wavs>>

\* the renderer raises instead of returning, at whatever orientation
RenderFail ==
    /\ pc = "sweep"
    /\ angle < NumOrientations - 1
    /\ rendered' = TRUE
    /\ Raise(RendererError)
    /\ UNCHANGED <<opened, warned, wavs>>

\* the samples of a bank, as a set
Samples(bank) ==
    {bank.rows[r][c] : r \in DOMAIN bank.rows, c \in 1..bank.shape[2]}

\* np.max(x) over a non-empty set of samples
MaxOf(S) == CHOOSE x \in S : \A y \in S : RatLE(y, x)

\* np.max(np.abs(ssr_brirs))
MaxAbs(bank) == MaxOf({RatAbs(x) : x \in Samples(bank)})

\* ssr_brirs / scalar
Scaled(bank, m) ==
    [bank EXCEPT !.rows = [r \in DOMAIN @ |->
                              [c \in 1..bank.shape[2] |-> RatDiv(@[r][c], m)]]]

\* faulty variant: every row is normalized by its own peak
NormalizedPerRow(bank) ==
    [bank EXCEPT !.rows = [r \in DOMAIN @ |->
        LET m == MaxOf({RatAbs(@[r][c]) : c \in 1..bank.shape[2]})
        IN  [c \in 1..bank.shape[2] |->
                IF RatGT(m, One) THEN RatDiv(@[r][c], m) ELSE @[r][c]]]]

\* lines 225-227, 270-272, for a bank with at least one sample
Normalized(bank) ==
    IF RatGT(MaxAbs(bank), One) THEN Scaled(bank, MaxAbs(bank)) ELSE bank

\* lines 224-227, 269-272; np.max raises on an array without elements
Normalize ==
    /\ pc = "norm"
    /\ IF Samples(ssr_brirs) = {}
       THEN Raise(EmptyMax) /\ UNCHANGED warned
       ELSE /\ warned' = (warned \/ RatGT(MaxAbs(ssr_brirs), One))
            /\ ssr_brirs' = Normalized(ssr_brirs)
            /\ pc' = "write"
            /\ UNCHANGED <<func, err, caller, params, angle, sdm_phi_rot,
                           ir_l, ir_r, lh, ret, call>>
    /\ UNCHANGED <<rendered, opened, wavs>>

\* ssr_brirs.astype(np.float32)
AsFloat32(bank) ==
    [bank EXCEPT !.rows = [r \in DOMAIN @ |->
                              [c \in 1..bank.shape[2] |-> Float32(@[r][c])]]]

\* x.T of a bank: one frame per column, one channel per row
Transposed(bank) ==
    [shape |-> <<bank.shape[2], bank.shape[1]>>,
     frames |-> [c \in 1..bank.shape[2] |->
                    [r \in DOMAIN bank.rows |-> bank.rows[r][c]]]]

\* lines 230, 275: wavfile.write(filename, fs, ssr_brirs.astype(np.float32).T)
Write ==
    /\ pc = "write"
    /\ wavs' = Append(wavs, [path |-> filename, rate |-> fs,
                             data |-> Transposed(AsFloat32(ssr_brirs))])
    /\ pc' = "done"
    /\ UNCHANGED <<func, err, caller, params, locals, lh, ret, call,
                   rendered, opened, warned>>

\* ---------------------------------------------------------- specifications
LoadSteps == LoadDefaultPath \/ LoadOpen \/ LoadParse \/ LoadDummy \/ LoadReturn

WriterSteps ==
    \/ Resolve \/ CheckFs \/ EnsureWavStep \/ Allocate
    \/ SweepLs \/ SweepSdm \/ RenderFail \/ Normalize \/ Write

\* one call of either writer on a source above full scale: every source and
\* HRIR length, every sample rate, the HRTF set passed or loaded by default
Next ==
    \/ CallLs({OutName}, {"loud"}, 0..MaxSrcLen, FsValues, {NoHrirs} \cup CallerSets)
    \/ CallSdm({OutName}, {"loud"}, 0..MaxSrcLen, {"turning"}, FsValues,
               {NoHrirs} \cup CallerSets)
    \/ LoadSteps
    \/ WriterSteps

Spec == Init /\ [][Next]_vars

\* one call of either writer at 48 kHz with the longest HRTF set passed in:
\* sources of every level and direction
LevelNext ==
    \/ CallLs({OutName}, SrcKinds, 1..MaxSrcLen, {48000},
              {CallerHRIRs(MaxHrirLen, 48000)})
    \/ CallSdm({OutName}, SrcKinds, 1..MaxSrcLen, DoaKinds, {48000},
               {CallerHRIRs(MaxHrirLen, 48000)})
    \/ WriterSteps

LevelSpec == Init /\ [][LevelNext]_vars

\* one call of write_ssr_brirs_sdm or write_ssr_brirs_loudspeaker on an
\* empty source, under destination names of every shape
NameNext ==
    \/ CallLs(Names, {"unit"}, {0}, {48000}, {CallerHRIRs(2, 48000)})
    \/ CallSdm(Names, {"unit"}, {0}, {"front"}, {48000}, {CallerHRIRs(2, 48000)})
    \/ WriterSteps

NameSpec == Init /\ [][NameNext]_vars

\* one direct call of load_hrirs
LoadNext == CallLoad \/ LoadSteps

LoadSpec == Init /\ [][LoadNext]_vars

\* ------------------------------------------------------------------ claims
\* what the caller passed as source length and which HRTF length is in use
GivenSourceLength ==
    IF func = "ls" THEN caller.ls_irs.shape[2] ELSE Len(caller.sdm_p)

\* k degrees in units of pi/360
Radians(k) == (k * Turn) \div 360

\* the pair a single renderer call for orientation k returns, from the
\* caller's own arguments
SingleRender(k) ==
    IF func = "ls"
    THEN Binauralize(caller.hull, caller.ls_irs, caller.fs, <<Radians(k), 0>>, hrirs)
    ELSE RenderBsdm(caller.sdm_p,
                    [i \in 1..Len(caller.sdm_phi) |-> caller.sdm_phi[i] - Radians(k)],
                    caller.sdm_theta, hrirs)

\* C1: when the sweep of either writer is complete, rows 2k and 2k+1 of the
\* bank are the left and the right output of the single renderer call for
\* orientation k, for every k in 0..359; so each of the 720 rows holds a
\* renderer output, and is zero only where the renderer returned zeros.
C1_RowCorrespondence ==
    pc = "norm" =>
        /\ DOMAIN ssr_brirs.rows = 0..719
        /\ \A k \in 0..359 :
              /\ ssr_brirs.rows[2 * k] = SingleRender(k)[1]
              /\ ssr_brirs.rows[2 * k + 1] = SingleRender(k)[2]

C1_Witness ==
    /\ pc = "norm" /\ func = "sdm"
    /\ ssr_brirs.shape[2] = 3
    /\ ssr_brirs.rows[180] # ssr_brirs.rows[0]
    /\ ssr_brirs.rows[181] # ssr_brirs.rows[180]
    /\ ssr_brirs.rows[719] # Const(3, Zero)

\* C2: from allocation through normalization to the write the bank has 720
\* rows and sourceLength + hrirLength - 1 columns, every row of that length;
\* a zero-length source gives hrirLength - 1 columns; the file written has
\* one frame per column and 720 channels.
C2_Shape ==
    pc \in {"sweep", "norm", "write", "done"} =>
        /\ ssr_brirs.shape = <<720, GivenSourceLength + hrirs.left.shape[2] - 1>>
        /\ DOMAIN ssr_brirs.rows = 0..719
        /\ \A r \in DOMAIN ssr_brirs.rows :
              DOMAIN ssr_brirs.rows[r] = 1..ssr_brirs.shape[2]
        /\ GivenSourceLength = 0 => ssr_brirs.shape[2] = hrirs.left.shape[2] - 1
        /\ pc = "done" =>
              /\ wavs[1].data.shape = <<ssr_brirs.shape[2], 720>>
              /\ DOMAIN wavs[1].data.frames = 1..ssr_brirs.shape[2]
              /\ \A c \in DOMAIN wavs[1].data.frames :
                    DOMAIN wavs[1].data.frames[c] = 0..719

C2_Witness ==
    /\ pc = "write"
    /\ GivenSourceLength = 0
    /\ ssr_brirs.shape = <<720, 1>>

\* C3: with m the largest absolute sample of the whole swept bank, the
\* normalization step leaves a bank whose every sample is the swept sample
\* divided by m when m > 1, its largest absolute sample then being exactly 1,
\* and leaves the swept bank as it is when m <= 1; that bank is the one the
\* write step casts, transposes and writes.
C3_Normalization ==
    [][/\ (pc = "norm" /\ pc' = "write") =>
            LET m == MaxAbs(ssr_brirs)
            IN  /\ \A x \in Samples(ssr_brirs) : RatLE(RatAbs(x), m)
                /\ ssr_brirs'.shape = ssr_brirs.shape
                /\ IF RatGT(m, One)
                   THEN /\ \A r \in DOMAIN ssr_brirs.rows :
                              \A c \in 1..ssr_brirs.shape[2] :
                                 RatMul(ssr_brirs'.rows[r][c], m) = ssr_brirs.rows[r][c]
                        /\ MaxAbs(ssr_brirs') = <<1, 1>>
                        /\ warned'
                   ELSE ssr_brirs' = ssr_brirs /\ warned' = warned
       /\ (pc = "write" /\ pc' = "done") =>
            /\ ssr_brirs' = ssr_brirs
            /\ wavs'[1].data.shape = <<ssr_brirs.shape[2], 720>>
            /\ \A r \in DOMAIN ssr_brirs.rows :
                  \A c \in 1..ssr_brirs.shape[2] :
                     wavs'[1].data.frames[c][r] = Float32(ssr_brirs.rows[r][c])
      ]_vars

C3_Witness ==
    /\ pc = "write" /\ warned
    /\ MaxAbs(ssr_brirs) = <<1, 1>>
    /\ \E x \in Samples(ssr_brirs) : x[1] # 0 /\ x[2] > 1
    /\ ssr_brirs.rows[0] # ssr_brirs.rows[1]

\* C4: a writer whose HRTF set, passed in or loaded by default, is stored at
\* a rate other than fs fails with the assertion error at the rate check,
\* with no renderer invoked and no file written; no stage after the check
\* is entered with unequal rates.
C4_RateMismatch ==
    /\ [](func \in {"ls", "sdm"} =>
            /\ (pc \in {"ext", "alloc", "sweep", "norm", "write", "done"}
                    => hrirs.fs = caller.fs /\ fs = caller.fs)
            /\ ((rendered \/ wavs # <<>>)
                    => pc \in {"sweep", "norm", "write", "done", "error"})
            /\ ((caller.hrirs # NoHrirs /\ caller.hrirs.fs # caller.fs) =>
                    /\ ~rendered /\ wavs = <<>>
                    /\ pc \in {"resolve", "check", "error"}
                    /\ pc = "error" => err = "AssertionError"))
    /\ [][(/\ func \in {"ls", "sdm"}
           /\ \/ pc = "check" /\ hrirs.fs # fs
              \/ pc = "l_make" /\ lh.hrir_fs # lh.fs)
          => (/\ pc' = "error" /\ err' = "AssertionError"
              /\ ~rendered' /\ wavs' = <<>>)]_vars

C4_Witness ==
    /\ func = "sdm" /\ pc = "error" /\ err = "AssertionError"
    /\ caller.hrirs = NoHrirs
    /\ ~rendered /\ wavs = <<>> /\ opened # {}

\* the stages of a writer, in the order of the code
Stage(p) ==
    CASE p = "idle" -> 0
      [] p = "resolve" -> 1
      [] p \in {"l_default", "l_open", "l_parse", "l_dummy", "l_make"} -> 2
      [] p = "check" -> 3
      [] p = "ext" -> 4
      [] p = "alloc" -> 5
      [] p = "sweep" -> 6
      [] p = "norm" -> 7
      [] p = "write" -> 8
      [] p = "done" -> 9
      [] p = "error" -> 10

\* C5: the stages of a writer run in the order rate check, sweep,
\* normalization, write; a file is written at most once, by the write stage,
\* after orientation 359 was rendered and stored and the normalization was
\* decided; a run that ends in an exception has written no file.
C5_NoPartialOutput ==
    /\ [](/\ pc = "error" => wavs = <<>>
          /\ wavs # <<>> => pc = "done" /\ Len(wavs) = 1
          /\ pc \in {"norm", "write", "done"} => angle = 359 /\ rendered
          /\ pc = "norm" => ssr_brirs.rows[718] = ir_l /\ ssr_brirs.rows[719] = ir_r
          /\ pc \in {"check", "ext", "alloc"} => ~rendered)
    /\ [][/\ Stage(pc) <= Stage(pc')
          /\ pc = "sweep" => pc' \in {"sweep", "norm", "error"}
          /\ pc = "norm" => pc' \in {"norm", "write", "error"}
          /\ pc = "write" => pc' \in {"write", "done"}
          /\ wavs' # wavs => pc = "write" /\ wavs = <<>>
          /\ (pc = "sweep" /\ pc' = "norm") => angle' = 359
          /\ (pc = "sweep" /\ pc' = "sweep") => angle' = angle + 1 /\ angle' < 359
         ]_vars

C5_Witness ==
    /\ pc = "error" /\ err = "renderer error"
    /\ rendered /\ wavs = <<>>

\* C6: load_hrirs without a filename opens the 44.1 kHz default container
\* for fs = 44100 and the 48 kHz one for fs = 48000 and nothing else, and for
\* every other fs raises the no-default error with no container opened; with
\* a filename, no fs raises that error and only the named file is opened.
C6_DefaultLookup ==
    func = "load" =>
        LET past == pc \in {"l_parse", "l_dummy", "l_make", "returned"}
            only(path) == opened \subseteq {path} /\ (past => opened = {path})
        IN  IF caller.filename = <<>>
            THEN /\ caller.fs = 44100 =>
                      /\ only(<<"spaudiopy", "../data/HRTF_default.mat">>)
                      /\ err # "ValueError: No default hrirs."
                 /\ caller.fs = 48000 =>
                      /\ only(<<"spaudiopy", "../data/HRTF_default48k.mat">>)
                      /\ err # "ValueError: No default hrirs."
                 /\ caller.fs \notin {44100, 48000} =>
                      /\ opened = {}
                      /\ pc \in {"l_default", "error"}
                      /\ pc = "error" => err = "ValueError: No default hrirs."
            ELSE /\ only(caller.filename)
                 /\ err # "ValueError: No default hrirs."

C6_Witness ==
    /\ func = "load" /\ pc = "error"
    /\ caller.filename = <<>> /\ caller.fs = 96000
    /\ err = "ValueError: No default hrirs." /\ opened = {}

\* C7: load_hrirs with dummy = True returns a set whose left and right
\* responses are 1 at the first sample and 0 at every later one for every
\* grid position, with the array shapes, the grid and the sample rate that
\* the container gives without dummy.
C7_Dummy ==
    [][(pc = "l_make" /\ pc' = "returned" /\ lh.dummy) =>
          LET shape == SelectSeq(lh.mat.hrir_l.shape, LAMBDA d : d # 1)
              unit == [i \in 1..(shape[1] * shape[2]) |->
                          IF i % shape[2] = 1 THEN <<1, 1>> ELSE <<0, 1>>]
          IN  /\ Len(shape) = 2
              /\ ret'.left = [shape |-> shape, v |-> unit]
              /\ ret'.right = [shape |-> shape, v |-> unit]
              /\ \A g \in 1..shape[1], t \in 1..shape[2] :
                    /\ At2(ret'.left, g, t) = IF t = 1 THEN <<1, 1>> ELSE <<0, 1>>
                    /\ At2(ret'.right, g, t) = At2(ret'.left, g, t)
              /\ ret'.grid = [g \in 1..shape[1] |->
                                [azi |-> lh.mat.azi.v[g], colat |-> lh.mat.elev.v[g]]]
              /\ ret'.fs = lh.mat.SamplingRate.v[1]
              /\ ret'.fs = lh.fs
      ]_vars

C7_Witness ==
    /\ func = "load" /\ pc = "returned" /\ caller.dummy
    /\ ret.left.shape = <<GridSize, 2>>
    /\ ret.left.v = <<One, Zero, One, Zero>>

\* whether a name ends in ".wav"
EndsInWav(name) ==
    /\ Len(name) >= 4
    /\ name[Len(name) - 3] = "." /\ name[Len(name) - 2] = "w"
    /\ name[Len(name) - 1] = "a" /\ name[Len(name)] = "v"

\* C8: the path a writer hands to wavfile.write ends in ".wav"; it is the
\* given name when that ends in ".wav" and the given name followed by ".wav"
\* otherwise, also for names shorter than four characters; the rule applied
\* to that path gives the path again.
C8_Extension ==
    (func \in {"ls", "sdm"} /\ pc \in {"alloc", "sweep", "norm", "write", "done"}) =>
        LET given == caller.filename
            path == IF pc = "done" THEN wavs[1].path ELSE filename
        IN  /\ EndsInWav(path)
            /\ EndsInWav(given) => path = given
            /\ ~EndsInWav(given) => path = given \o <<".", "w", "a", "v">>
            /\ EnsureWav(path) = path
            /\ pc = "done" => filename = wavs[1].path

C8_Witness ==
    /\ pc = "done"
    /\ caller.filename = <<"w", "a", "v">>
    /\ wavs[1].path = <<"w", "a", "v", ".", "w", "a", "v">>

\* orders other than 0, 1, ..., 359 in which 360 iterations can be run:
\* backwards; in steps of 7 around the circle; one worker's even
\* orientations before another's odd ones
Schedules == {"descending", "strided", "evens first"}
Schedule(name, i) ==
    CASE name = "descending" -> 359 - i
      [] name = "strided" -> (7 * i) % 360
      [] name = "evens first" -> IF i < 180 THEN 2 * i ELSE 2 * (i - 180) + 1

\* bank after the iterations at positions lo..hi-1 of a schedule, in turn
RECURSIVE SweptRange(_, _, _, _)
SweptRange(name, bank, lo, hi) ==
    IF hi <= lo THEN bank
    ELSE IF hi = lo + 1 THEN Iteration(bank, Schedule(name, lo))
    ELSE LET mid == (lo + hi) \div 2
             first == SweptRange(name, bank, lo, mid)
         IN  IF first.shape = bank.shape      \* the first half is run first
             THEN SweptRange(name, first, mid, hi) ELSE bank

\* the bank after all 360 iterations of a schedule, from the zero bank
SweptIn(name) ==
    SweptRange(name,
               [shape |-> ssr_brirs.shape,
                rows |-> [r \in 0..719 |-> [c \in 1..ssr_brirs.shape[2] |-> <<0, 1>>]]],
               0, 360)

C10_PureRotation ==
    /\ [](func = "sdm" /\ pc \in {"check", "ext", "alloc", "sweep", "norm", "write", "done"} =>
            /\ sdm_p = caller.sdm_p
            /\ sdm_phi = caller.sdm_phi
            /\ sdm_theta = caller.sdm_theta
            /\ caller.hrirs # NoHrirs => hrirs = caller.hrirs)
    /\ [][func = "sdm" =>
            /\ caller' = caller
            /\ (pc = "sweep" /\ pc' \in {"sweep", "norm"}) =>
                  /\ call'.fn = "render_bsdm"
                  /\ DOMAIN call'.sdm_phi = DOMAIN caller.sdm_phi
                  /\ \A i \in DOMAIN caller.sdm_phi :
                        call'.sdm_phi[i] = caller.sdm_phi[i] - Radians(angle')
                  /\ sdm_phi_rot' = call'.sdm_phi
                  /\ call'.sdm_theta = caller.sdm_theta
                  /\ call'.sdm_p = caller.sdm_p
                  /\ call'.hrirs = hrirs /\ hrirs' = hrirs
         ]_vars

C10_Witness ==
    /\ func = "sdm" /\ pc = "sweep" /\ angle = 90
    /\ caller.sdm_phi = <<15, 265>>
    /\ call.sdm_phi = <<15 - 180, 265 - 180>>
    /\ sdm_phi = <<15, 265>>

====
